---- MODULE Spec2Model ----
\* A model of app-api/main.py: the four text handlers (generate, title,
\* summarize, keywords), the sqlite log they append to, and the history
\* listing that reads it back.
\*
\* Text is a sequence of Unicode code points (Python str); a JSON document
\* is the sequence of code points json.dumps writes.
EXTENDS Integers, Sequences, FiniteSets, Bags, TLC

VARIABLES MOCK, api_key, logs, sqlite_sequence, now, req, resp, ncalls, completed,
          fn, arg, res

vars == <<MOCK, api_key, logs, sqlite_sequence, now, req, resp, ncalls, completed,
          fn, arg, res>>

(***************************************************************************)
(* Python str operations                                                   *)
(***************************************************************************)

MinOf(S) == CHOOSE x \in S : \A y \in S : x <= y

MaxOf(S) == CHOOSE x \in S : \A y \in S : y <= x

\* str.isspace() for one code point (the ASCII and Latin-1 white space).
IsSpace(c) == c \in {9, 10, 11, 12, 13, 28, 29, 30, 31, 32, 133, 160}

\* The regular expression class \w on the code points modelled:
\* digits, letters and the underscore.
IsWord(c) == c \in (48..57) \cup (65..90) \cup (97..122) \cup {95}

\* s[:n] for n >= 0
Slice(s, n) == SubSeq(s, 1, IF n < Len(s) THEN n ELSE Len(s))

lstrip(s) ==
    LET keep == {i \in 1..Len(s) : ~IsSpace(s[i])}
    IN  IF keep = {} THEN <<>> ELSE SubSeq(s, MinOf(keep), Len(s))

rstrip(s) ==
    LET keep == {i \in 1..Len(s) : ~IsSpace(s[i])}
    IN  IF keep = {} THEN <<>> ELSE SubSeq(s, 1, MaxOf(keep))

strip(s) == lstrip(rstrip(s))

\* str.lower() on the code points modelled (ASCII letters).
LowerChar(c) == IF c \in 65..90 THEN c + 32 ELSE c

lower(s) == [i \in 1..Len(s) |-> LowerChar(s[i])]

\* The maximal runs of the code points of s marked, left to right
\* (inside[i] says whether s[i] belongs to a run).
Runs(s, inside) ==
    LET starts == {i \in 1..Len(s) : inside[i] /\ (i = 1 \/ ~inside[i - 1])}
        ends   == {j \in 1..Len(s) : inside[j] /\ (j = Len(s) \/ ~inside[j + 1])}
        kth(S, k) == CHOOSE x \in S : Cardinality({y \in S : y < x}) = k - 1
    IN  [k \in 1..Cardinality(starts) |-> SubSeq(s, kth(starts, k), kth(ends, k))]

\* str.split() with no separator: the white-space separated words.
split(s) == Runs(s, [i \in 1..Len(s) |-> ~IsSpace(s[i])])

\* str.split(sep) for a one-character separator: the pieces between
\* separators, empty pieces kept.
splitOn(s, sep) ==
    LET cuts == {i \in 1..Len(s) : s[i] = sep}
        kth(k) == CHOOSE x \in cuts : Cardinality({y \in cuts : y < x}) = k - 1
        from(k) == IF k = 1 THEN 1 ELSE kth(k - 1) + 1
        upto(k) == IF k = Cardinality(cuts) + 1 THEN Len(s) ELSE kth(k) - 1
    IN  [k \in 1..(Cardinality(cuts) + 1) |-> SubSeq(s, from(k), upto(k))]

RECURSIVE join(_, _)
\* sep.join(words)
join(words, sep) ==
    IF words = <<>> THEN <<>>
    ELSE IF Len(words) = 1 THEN words[1]
    ELSE words[1] \o sep \o join(Tail(words), sep)

\* a < b for two strings, by code point (Python's str ordering).
StrLess(a, b) ==
    \E i \in 1..(Len(b)) :
        /\ i <= Len(a) + 1
        /\ \A j \in 1..(i - 1) : a[j] = b[j]
        /\ (i = Len(a) + 1 \/ a[i] < b[i])

Range(s) == {s[i] : i \in 1..Len(s)}

\* set(xs)
set(xs) == Range(xs)

\* sorted(S) for a collection S of distinct strings (a set, or the keys of a
\* dict): the list of its elements, ascending.
sorted(S) ==
    [k \in 1..Cardinality(S) |->
        CHOOSE x \in S : Cardinality({y \in S : StrLess(y, x)}) = k - 1]

\* list(dict.fromkeys(xs)): the first occurrence of each element, in order.
fromkeys(xs) ==
    LET first == {i \in 1..Len(xs) : \A j \in 1..(i - 1) : xs[j] # xs[i]}
        kth(k) == CHOOSE x \in first : Cardinality({y \in first : y < x}) = k - 1
    IN  [k \in 1..Cardinality(first) |-> xs[kth(k)]]

\* [x for x in xs if keep], keep[i] saying whether xs[i] stays
Filter(xs, keep) ==
    LET idx == {i \in 1..Len(xs) : keep[i]}
        kth(k) == CHOOSE x \in idx : Cardinality({y \in idx : y < x}) = k - 1
    IN  [k \in 1..Cardinality(idx) |-> xs[kth(k)]]

(***************************************************************************)
(* String literals of main.py, as code points                              *)
(***************************************************************************)

\* "Untitled"
Untitled == <<85, 110, 116, 105, 116, 108, 101, 100>>

\* "No content."
NoContent == <<78, 111, 32, 99, 111, 110, 116, 101, 110, 116, 46>>

\* "(mock) you said: "
MockPrefix == <<40, 109, 111, 99, 107, 41, 32, 121, 111, 117, 32, 115, 97, 105, 100, 58, 32>>

\* "..."
Ellipsis == <<46, 46, 46>>

\* the keys "prompt", "text" and "keywords" of the request and response bodies
K_prompt == <<112, 114, 111, 109, 112, 116>>

K_text == <<116, 101, 120, 116>>

K_keywords == <<107, 101, 121, 119, 111, 114, 100, 115>>

\* words[:12] and title[:80] of _mock_title; len(cleaned) <= 150 of _mock_summary
TitleWords == 12

TitleChars == 80

SummaryChars == 150

\* history(limit: int = 10)
DefaultLimit == 10

(***************************************************************************)
(* The mock responder                                                      *)
(***************************************************************************)

_clean_text(value) == strip(value)

_mock_generate(prompt) == MockPrefix \o prompt

_mock_title(text) ==
    LET cleaned == _clean_text(text)
        words   == split(cleaned)
        title   == join(Slice(words, TitleWords), <<32>>)
    IN  IF cleaned = <<>> THEN Untitled ELSE Slice(title, TitleChars)

\* _mock_summary, but the text is cut one character late.
_mock_summary_late(text) ==
    LET cleaned == strip(text)
    IN  IF cleaned = <<>> THEN NoContent
        ELSE IF Len(cleaned) <= SummaryChars THEN cleaned
        ELSE rstrip(Slice(cleaned, SummaryChars + 1)) \o Ellipsis

_mock_summary(text) ==
    LET cleaned == _clean_text(text)
        clipped == rstrip(Slice(cleaned, SummaryChars))
    IN  IF cleaned = <<>> THEN NoContent
        ELSE IF Len(cleaned) <= SummaryChars THEN cleaned
        ELSE clipped \o Ellipsis

\* re.findall(r"\b\w+\b", text.lower()): \w+ is greedy and \b holds at both
\* ends of a maximal run of word characters and nowhere inside one.
findall_words(text) == Runs(text, [i \in 1..Len(text) |-> IsWord(text[i])])

\* _mock_keywords, but the words are left in their order of appearance.
_mock_keywords_unsorted(text) == fromkeys(findall_words(lower(text)))

_mock_keywords(text) ==
    LET words == findall_words(lower(text))
    IN  sorted(set(words))

(***************************************************************************)
(* Python values and their JSON text                                       *)
(***************************************************************************)

\* The values the handlers put in a payload: a str, None, or a list of str.
PyStr(s) == [t |-> "str", s |-> s, l |-> <<>>]

PyNone == [t |-> "None", s |-> <<>>, l |-> <<>>]

PyList(l) == [t |-> "list", s |-> <<>>, l |-> l]

\* A mapping with one key: {"prompt": ..}, {"text": ..}, {"keywords": ..}
PyDict(k, v) == [k |-> k, v |-> v]

\* the hexadecimal digit of d in 0..15, lower case, as json.dumps writes it
HexDigit(d) == IF d < 10 THEN 48 + d ELSE 87 + d

\* json.encoder.ESCAPE_DCT with ensure_ascii=False: the quote, the backslash
\* and the control characters are escaped, everything else is written as is.
EscapeChar(c) ==
    CASE c = 34 -> <<92, 34>>
      [] c = 92 -> <<92, 92>>
      [] c = 10 -> <<92, 110>>
      [] c = 13 -> <<92, 114>>
      [] c = 9  -> <<92, 116>>
      [] c = 12 -> <<92, 102>>
      [] c = 8  -> <<92, 98>>
      [] c < 32 /\ c \notin {8, 9, 10, 12, 13} ->
            <<92, 117, 48, 48, HexDigit(c \div 16), HexDigit(c % 16)>>
      [] OTHER -> <<c>>

RECURSIVE EscapeAll(_)
EscapeAll(s) == IF s = <<>> THEN <<>> ELSE EscapeChar(Head(s)) \o EscapeAll(Tail(s))

\* json.dumps of a str
dumps_str(s) == <<34>> \o EscapeAll(s) \o <<34>>

RECURSIVE dumps_items(_)
\* the items of a list, separated by ", "
dumps_items(l) ==
    IF l = <<>> THEN <<>>
    ELSE IF Len(l) = 1 THEN dumps_str(l[1])
    ELSE dumps_str(l[1]) \o <<44, 32>> \o dumps_items(Tail(l))

dumps_value(v) ==
    CASE v.t = "str"  -> dumps_str(v.s)
      [] v.t = "None" -> <<110, 117, 108, 108>>
      [] v.t = "list" -> <<91>> \o dumps_items(v.l) \o <<93>>

\* json.dumps(d, ensure_ascii=False) of a one-key mapping: {"key": value}
json_dumps(d) == <<123>> \o dumps_str(d.k) \o <<58, 32>> \o dumps_value(d.v) \o <<125>>

\* What the decoder returns at a position: the value read and the index
\* after it, or ok = FALSE where json raises JSONDecodeError.
Fail == [ok |-> FALSE, v |-> PyNone, i |-> 0]

Ok(v, i) == [ok |-> TRUE, v |-> v, i |-> i]

HexVal(c) ==
    CASE c \in 48..57  -> c - 48
      [] c \in 97..102 -> c - 87
      [] c \in 65..70  -> c - 55
      [] OTHER -> -1

\* json.decoder.BACKSLASH: the character a one-letter escape stands for
Unescape(e) ==
    CASE e = 34  -> 34
      [] e = 92  -> 92
      [] e = 47  -> 47
      [] e = 98  -> 8
      [] e = 102 -> 12
      [] e = 110 -> 10
      [] e = 114 -> 13
      [] e = 116 -> 9
      [] OTHER -> -1

RECURSIVE SkipWs(_, _)
\* json.decoder.WHITESPACE: the index of the first non-blank at or after i
SkipWs(s, i) ==
    IF i > Len(s) \/ s[i] \notin {32, 9, 10, 13} THEN i ELSE SkipWs(s, i + 1)

RECURSIVE scanstring(_, _, _)
\* json.decoder.py_scanstring (strict): the string whose opening quote is
\* just before j; acc holds the characters read so far.
scanstring(s, j, acc) ==
    IF j > Len(s) THEN Fail
    ELSE IF s[j] = 34 THEN Ok(PyStr(acc), j + 1)
    ELSE IF s[j] = 92 THEN
        IF j + 1 > Len(s) THEN Fail
        ELSE IF s[j + 1] = 117 THEN
            IF j + 5 > Len(s) \/ \E k \in 2..5 : HexVal(s[j + k]) < 0 THEN Fail
            ELSE scanstring(s, j + 6,
                    Append(acc, 4096 * HexVal(s[j + 2]) + 256 * HexVal(s[j + 3])
                                + 16 * HexVal(s[j + 4]) + HexVal(s[j + 5])))
        ELSE IF Unescape(s[j + 1]) < 0 THEN Fail
        ELSE scanstring(s, j + 2, Append(acc, Unescape(s[j + 1])))
    ELSE IF s[j] < 32 THEN Fail
    ELSE scanstring(s, j + 1, Append(acc, s[j]))

RECURSIVE scanitems(_, _, _), after_item(_, _, _)
\* json.decoder.JSONArray for an array of strings: j is the index of the
\* next item, acc holds the items read so far.
scanitems(s, j, acc) ==
    IF j > Len(s) \/ s[j] # 34 THEN Fail
    ELSE after_item(s, scanstring(s, j + 1, <<>>), acc)

\* item has been read: a comma and the next item, or the closing bracket
after_item(s, item, acc) ==
    IF ~item.ok THEN Fail
    ELSE LET k == SkipWs(s, item.i)
         IN  IF k > Len(s) THEN Fail
             ELSE IF s[k] = 44 THEN scanitems(s, SkipWs(s, k + 1), Append(acc, item.v.s))
             ELSE IF s[k] = 93 THEN Ok(PyList(Append(acc, item.v.s)), k + 1)
             ELSE Fail

\* json.scanner.py_make_scanner._scan_once, for the values modelled: a
\* string, null, or an array of strings.
scan_once(s, i) ==
    IF i > Len(s) THEN Fail
    ELSE IF s[i] = 34 THEN scanstring(s, i + 1, <<>>)
    ELSE IF s[i] = 110 THEN
        IF i + 3 <= Len(s) /\ SubSeq(s, i, i + 3) = <<110, 117, 108, 108>>
        THEN Ok(PyNone, i + 4) ELSE Fail
    ELSE IF s[i] = 91 THEN
        LET k == SkipWs(s, i + 1)
        IN  IF k <= Len(s) /\ s[k] = 93 THEN Ok(PyList(<<>>), k + 1)
            ELSE scanitems(s, k, <<>>)
    ELSE Fail

NotLoaded == [ok |-> FALSE, d |-> PyDict(<<>>, PyNone)]

\* json.decoder.JSONObject after the key's value: the closing brace
object_end(s, key, val) ==
    IF ~val.ok THEN NotLoaded
    ELSE LET i == SkipWs(s, val.i)
         IN  IF i <= Len(s) /\ s[i] = 125 /\ SkipWs(s, i + 1) = Len(s) + 1
             THEN [ok |-> TRUE, d |-> PyDict(key.v.s, val.v)]
             ELSE NotLoaded

\* json.decoder.JSONObject after the key: the colon and the value
object_value(s, key) ==
    IF ~key.ok THEN NotLoaded
    ELSE LET i == SkipWs(s, key.i)
         IN  IF i <= Len(s) /\ s[i] = 58
             THEN object_end(s, key, scan_once(s, SkipWs(s, i + 1)))
             ELSE NotLoaded

\* json.loads(s) where s holds a one-key object: [ok, d], d the mapping.
json_loads(s) ==
    LET i0 == SkipWs(s, 1)
        i1 == SkipWs(s, i0 + 1)
    IN  IF i0 <= Len(s) /\ s[i0] = 123 /\ i1 <= Len(s) /\ s[i1] = 34
        THEN object_value(s, scanstring(s, i1 + 1, <<>>))
        ELSE NotLoaded

(***************************************************************************)
(* The handlers' payloads                                                  *)
(***************************************************************************)

Modes == {"generate", "title", "summarize", "keywords"}

NoPayload == PyDict(<<>>, PyNone)

\* What a handler has computed when it reaches _record_log: its payload, or
\* raised = TRUE when an exception left the handler before that line.
Returned(payload) == [raised |-> FALSE, payload |-> payload]

Raised == [raised |-> TRUE, payload |-> NoPayload]

\* inp.model_dump() of GenIn and of TextIn
model_dump(mode, body) ==
    PyDict(IF mode = "generate" THEN K_prompt ELSE K_text, PyStr(body))

\* NeedsCreate, but without the blank-text shortcut.
NeedsCreateAlways(mode, body) == ~MOCK

\* Whether the handler reaches client.chat.completions.create: never in
\* mock mode, and title/summarize/keywords only for a non-blank text.
NeedsCreate(mode, body) ==
    ~MOCK /\ (mode = "generate" \/ _clean_text(body) # <<>>)

\* generate: content is resp.choices[0].message.content, read only when
\* the completion API was called.
generate_payload(prompt, content) ==
    Returned(PyDict(K_text, IF MOCK THEN PyStr(_mock_generate(prompt)) ELSE content))

\* title_payload, but without the blank-title check of lines 173-174.
title_payload_unchecked(text, content) ==
    LET cleaned == strip(text)
        result  == IF MOCK THEN PyStr(_mock_title(text))
                   ELSE IF cleaned = <<>> THEN PyStr(Untitled)
                   ELSE content
    IN  IF cleaned = <<>> THEN Returned(PyDict(K_text, PyStr(Untitled)))
        ELSE IF result.t # "str" THEN Raised
        ELSE Returned(PyDict(K_text, result))

\* title: result.strip() raises AttributeError when the content is None.
title_payload(text, content) ==
    LET cleaned == _clean_text(text)
        result  == IF MOCK THEN PyStr(_mock_title(text))
                   ELSE IF cleaned = <<>> THEN PyStr(Untitled)
                   ELSE content
    IN  IF cleaned = <<>> THEN Returned(PyDict(K_text, PyStr(Untitled)))
        ELSE IF result.t # "str" THEN Raised
        ELSE IF strip(result.s) = <<>> THEN Returned(PyDict(K_text, PyStr(Untitled)))
        ELSE Returned(PyDict(K_text, result))

summarize_payload(text, content) ==
    LET cleaned == _clean_text(text)
        summary == IF MOCK THEN PyStr(_mock_summary(text))
                   ELSE IF cleaned = <<>> THEN PyStr(NoContent)
                   ELSE content
    IN  Returned(PyDict(K_text, IF cleaned # <<>> THEN summary ELSE PyStr(NoContent)))

\* [w.strip().lower() for w in content.split(",") if w.strip()], then
\* sorted(dict.fromkeys(words))
live_keywords(content) ==
    LET pieces   == splitOn(content, 44)
        kept     == Filter(pieces, [i \in 1..Len(pieces) |-> strip(pieces[i]) # <<>>])
        words    == [i \in 1..Len(kept) |-> lower(strip(kept[i]))]
    IN  sorted(Range(fromkeys(words)))

\* keywords: content.split raises AttributeError when the content is None.
keywords_payload(text, content) ==
    LET cleaned == _clean_text(text)
    IN  IF MOCK THEN Returned(PyDict(K_keywords, PyList(_mock_keywords(text))))
        ELSE IF cleaned = <<>> THEN Returned(PyDict(K_keywords, PyList(<<>>)))
        ELSE IF content.t # "str" THEN Raised
        ELSE Returned(PyDict(K_keywords, PyList(live_keywords(content.s))))

Payload(mode, body, content) ==
    CASE mode = "generate"  -> generate_payload(body, content)
      [] mode = "title"     -> title_payload(body, content)
      [] mode = "summarize" -> summarize_payload(body, content)
      [] mode = "keywords"  -> keywords_payload(body, content)

(***************************************************************************)
(* Bounds and inputs of the server model                                   *)
(***************************************************************************)

\* concurrent requests the worker pool runs
NumProcs == 2

\* handler calls made in one run
MaxCalls == 2

\* seconds the clock advances in one run
MaxClock == 1

\* the small limit asked of history
MaxLimit == 1

Procs == 1..NumProcs

\* request texts: " " and B",a
Texts == {<<32>>, <<66, 34, 44, 97>>}

\* prompts: B",a
Prompts == {<<66, 34, 44, 97>>}

\* resp.choices[0].message.content: None and "b,A"
Contents == {PyNone, PyStr(<<98, 44, 65>>)}

\* limits asked of history: a negative one, a small one, the default
Limits == {-1, MaxLimit, DefaultLimit}

Errors == {"missing_key", "upstream", "crash"}

(***************************************************************************)
(* State                                                                   *)
(*   MOCK, api_key    the configuration read at import                     *)
(*   logs             the rows of table logs, in insertion order           *)
(*   sqlite_sequence  the largest id AUTOINCREMENT has handed out          *)
(*   now              the clock when it was read last, in whole seconds    *)
(*   req              per worker: idle, or waiting for the completion API  *)
(*   resp             the response the server sent last                    *)
(*   ncalls           the number of handler calls made so far              *)
(*   completed        the calls whose _record_log has returned (a bag)     *)
(*   fn, arg, res     a single handler computation (PureSpec)              *)
(***************************************************************************)

Idle == [pc |-> "idle", mode |-> "", body |-> <<>>, calls |-> 0]

NoResp == [op |-> "", status |-> "", body |-> <<>>, payload |-> NoPayload,
           calls |-> 0, limit |-> 0, rows |-> <<>>]

\* the response of a handler call that has ended
CallResp(mode, body, status, payload, calls) ==
    [NoResp EXCEPT !.op = mode, !.status = status, !.body = body,
                   !.payload = payload, !.calls = calls]

NoArg == [text |-> <<>>, content |-> PyNone]

NotRun == [done |-> FALSE, r |-> Raised]

Init ==
    /\ MOCK \in BOOLEAN
    /\ api_key \in {<<>>, <<107>>}
    /\ logs = <<>>
    /\ sqlite_sequence = 0
    /\ now = 0
    /\ req = [p \in Procs |-> Idle]
    /\ resp = NoResp
    /\ ncalls = 0
    /\ completed = EmptyBag
    /\ fn = "" /\ arg = NoArg /\ res = NotRun

(***************************************************************************)
(* The log store                                                           *)
(***************************************************************************)

\* Insert, but INSERT OR REPLACE keyed on the request: an earlier row of the
\* same mode and input is overwritten.
InsertOrReplace(rows, row) ==
    LET same == {i \in 1..Len(rows) :
                    rows[i].mode = row.mode /\ rows[i].input = row.input}
    IN  IF same = {} THEN Append(rows, row)
        ELSE [i \in 1..Len(rows) |-> IF i \in same THEN row ELSE rows[i]]

\* INSERT INTO logs (ts, mode, input, output): one statement, one row
Insert(rows, row) == Append(rows, row)

\* id INTEGER PRIMARY KEY AUTOINCREMENT: one more than the largest id ever used
NextId(rows, seq) ==
    LET used == {rows[i].id : i \in 1..Len(rows)} \cup {seq}
    IN  MaxOf(used) + 1

\* The readings _timestamp() can return: the clock in whole seconds, which
\* has stood still or advanced since it was read last.
Clock == {t \in now..(now + 1) : t <= MaxClock}

\* _record_log, but the input and output columns are swapped.
RecordLogSwapped(mode, inp, out) ==
    LET id == NextId(logs, sqlite_sequence)
    IN  /\ \E _timestamp \in Clock :
            /\ logs' = Insert(logs, [id |-> id, ts |-> _timestamp, mode |-> mode,
                                     input |-> json_dumps(out), output |-> json_dumps(inp)])
            /\ now' = _timestamp
        /\ sqlite_sequence' = id
        /\ completed' = completed (+) SetToBag({[mode |-> mode, input |-> inp, output |-> out]})

\* _record_log(mode, inp, out)
_record_log(mode, inp, out) ==
    LET payload_in  == json_dumps(inp)
        payload_out == json_dumps(out)
        id          == NextId(logs, sqlite_sequence)
    IN  /\ \E _timestamp \in Clock :
            /\ logs' = Insert(logs, [id |-> id, ts |-> _timestamp, mode |-> mode,
                                     input |-> payload_in, output |-> payload_out])
            /\ now' = _timestamp
        /\ sqlite_sequence' = id
        /\ completed' = completed (+) SetToBag({[mode |-> mode, input |-> inp, output |-> out]})

\* Select, but ORDER BY id ASC.
SelectOldestFirst(rows, limit) ==
    SubSeq(rows, 1, IF limit < 0 \/ limit > Len(rows) THEN Len(rows) ELSE limit)

\* SELECT ts, mode, input, output FROM logs ORDER BY id DESC LIMIT ?
\* (sqlite: a negative LIMIT is no limit)
Select(rows, limit) ==
    LET n    == IF limit < 0 \/ limit > Len(rows) THEN Len(rows) ELSE limit
        idx  == 1..Len(rows)
        kth(k) == CHOOSE i \in idx :
                    Cardinality({j \in idx : rows[j].id > rows[i].id}) = k - 1
    IN  [k \in 1..n |-> rows[kth(k)]]

(***************************************************************************)
(* The handlers                                                            *)
(***************************************************************************)

\* Raise, but a row is written for the failed request first.
RaiseLogged(p, mode, body, status, calls) ==
    /\ req' = [req EXCEPT ![p] = Idle]
    /\ resp' = CallResp(mode, body, status, NoPayload, calls)
    /\ _record_log(mode, model_dump(mode, body), NoPayload)

\* raise HTTPException(status_code=500, ...) or an uncaught exception: the
\* call ends with an error response and the handler runs no further.
Raise(p, mode, body, status, calls) ==
    /\ req' = [req EXCEPT ![p] = Idle]
    /\ resp' = CallResp(mode, body, status, NoPayload, calls)
    /\ UNCHANGED <<logs, sqlite_sequence, now, completed>>

\* The tail of a handler once its payload r is known: log it, return it.
Return(p, mode, body, r, calls) ==
    IF r.raised THEN Raise(p, mode, body, "crash", calls)
    ELSE /\ _record_log(mode, model_dump(mode, body), r.payload)
         /\ req' = [req EXCEPT ![p] = Idle]
         /\ resp' = CallResp(mode, body, "ok", r.payload, calls)

Finish(p, mode, body, content, calls) ==
    Return(p, mode, body, Payload(mode, body, content), calls)

\* _ensure_api_key()
_ensure_api_key == api_key # <<>>

\* A handler from its first line to its return, or to the point where it
\* waits for client.chat.completions.create.
Handle(p, mode, body) ==
    /\ ncalls < MaxCalls
    /\ ncalls' = ncalls + 1
    /\ UNCHANGED <<MOCK, api_key, fn, arg, res>>
    /\ IF ~NeedsCreate(mode, body) THEN Finish(p, mode, body, PyNone, 0)
       ELSE IF ~_ensure_api_key THEN Raise(p, mode, body, "missing_key", 0)
       ELSE /\ req' = [req EXCEPT ![p] = [pc |-> "api", mode |-> mode,
                                          body |-> body, calls |-> 1]]
            /\ UNCHANGED <<logs, sqlite_sequence, now, completed, resp>>

\* The worker the pool hands the next request to: the workers are
\* interchangeable, so it is the first idle one.
Free(p) == req[p].pc = "idle" /\ \A q \in Procs : req[q].pc = "idle" => p <= q

generate(p, prompt) == Free(p) /\ Handle(p, "generate", prompt)

title(p, text) == Free(p) /\ Handle(p, "title", text)

summarize(p, text) == Free(p) /\ Handle(p, "summarize", text)

keywords(p, text) == Free(p) /\ Handle(p, "keywords", text)

\* client.chat.completions.create returns: the handler runs to its end
create_returns(p, content) ==
    /\ req[p].pc = "api"
    /\ Finish(p, req[p].mode, req[p].body, content, req[p].calls)
    /\ UNCHANGED <<MOCK, api_key, ncalls, fn, arg, res>>

\* client.chat.completions.create raises: except Exception -> HTTPException
create_raises(p) ==
    /\ req[p].pc = "api"
    /\ Raise(p, req[p].mode, req[p].body, "upstream", req[p].calls)
    /\ UNCHANGED <<MOCK, api_key, ncalls, fn, arg, res>>

\* json.loads of a row's input and output columns
Decode(row) == [input |-> json_loads(row.input), output |-> json_loads(row.output)]

\* One row of the history response; id is the row's id, which the query
\* orders by (the response itself does not carry it).
HistoryRow(row, d) ==
    [id |-> row.id, ts |-> row.ts, mode |-> row.mode,
     input |-> d.input.d, output |-> d.output.d, ok |-> d.input.ok /\ d.output.ok]

Decoded(cur) == [k \in 1..Len(cur) |-> HistoryRow(cur[k], Decode(cur[k]))]

HistoryBody(rows) ==
    [raised |-> \E k \in 1..Len(rows) : ~rows[k].ok,
     rows   |-> [k \in 1..Len(rows) |->
                    [f \in {"id", "ts", "mode", "input", "output"} |-> rows[k][f]]]]

\* The body of history(limit): the rows, or raised = TRUE when json.loads
\* raises on a column.
history_rows(rows, limit) == HistoryBody(Decoded(Select(rows, limit)))

HistoryResp(limit, r) ==
    IF r.raised
    THEN [NoResp EXCEPT !.op = "history", !.status = "crash", !.limit = limit]
    ELSE [NoResp EXCEPT !.op = "history", !.status = "ok", !.limit = limit,
                        !.rows = r.rows]

\* GET /history?limit=N
history(limit) ==
    /\ resp' = HistoryResp(limit, history_rows(logs, limit))
    /\ UNCHANGED <<MOCK, api_key, logs, sqlite_sequence, now, req, ncalls, completed,
                   fn, arg, res>>

\* GET /health
health ==
    /\ resp' = [NoResp EXCEPT !.op = "health", !.status = "ok"]
    /\ UNCHANGED <<MOCK, api_key, logs, sqlite_sequence, now, req, ncalls, completed,
                   fn, arg, res>>

Next ==
    \/ \E p \in Procs, prompt \in Prompts : generate(p, prompt)
    \/ \E p \in Procs, text \in Texts : title(p, text)
    \/ \E p \in Procs, text \in Texts : summarize(p, text)
    \/ \E p \in Procs, text \in Texts : keywords(p, text)
    \/ \E p \in Procs, content \in Contents : create_returns(p, content)
    \/ \E p \in Procs : create_raises(p)
    \/ \E limit \in Limits : history(limit)
    \/ health

Spec == Init /\ [][Next]_vars

(***************************************************************************)
(* One handler computation on its own: the payload a handler builds from   *)
(* a request text and, in live mode, the content the completion API        *)
(* returned.                                                               *)
(***************************************************************************)

\* longest text enumerated in full for keywords
MaxKwLen == 4

\* most repetitions of a short text, and longest padding
MaxRep == 2

\* w * n
Rep(w, n) == [i \in 1..(n * Len(w)) |-> w[((i - 1) % Len(w)) + 1]]

RECURSIVE StringsUpTo(_, _)
\* every text over alphabet A of length at most n
StringsUpTo(A, n) ==
    IF n = 0 THEN {<<>>}
    ELSE LET shorter == StringsUpTo(A, n - 1)
         IN  shorter \cup {Append(t, c) : t \in shorter, c \in A}

\* A a b _ space comma
KwTexts == StringsUpTo({65, 97, 98, 32, 44}, MaxKwLen)

\* ["b", "a"] and ["b","A"] and [] and "b , a" and ["b", 
JsonReplies ==
    { <<91, 34, 98, 34, 44, 32, 34, 97, 34, 93>>,
      <<91, 34, 98, 34, 44, 34, 65, 34, 93>>,
      <<91, 93>>,
      <<98, 32, 44, 32, 97>>,
      <<91, 34, 98, 34, 44, 32>> }

\* texts around the 12-word and the 80-character cut of _mock_title, out
\* of the words "a", "ab " and "abcdefghi "
TitleTexts ==
    LET counts == (0..MaxRep) \cup ((TitleWords - 1)..(TitleWords + 1))
                  \cup ((TitleChars - 1)..(TitleChars + 1))
    IN  {Rep(<<32>>, l) \o Rep(w, n) :
            l \in 0..1, w \in {<<97>>, <<97, 98, 32>>}, n \in counts}
        \cup {Rep(<<97, 98, 99, 100, 101, 102, 103, 104, 105, 32>>, n) : n \in 7..10}

\* texts around the 150-character cut of _mock_summary:
\* blanks, a's, blanks, b's, blanks
SummaryTexts ==
    LET few  == 0..MaxRep
        many == {0, 1} \cup ((SummaryChars - 3)..(SummaryChars + 1))
    IN  {Rep(<<32>>, l) \o Rep(<<97>>, k) \o Rep(<<32>>, g) \o Rep(<<98>>, j) \o Rep(<<32>>, r) :
            l \in 0..1, k \in many, g \in few, j \in 0..1, r \in {0, 1, SummaryChars + 1}}

\* contents returned for a title or a summary: None, "", " ", "T", " T "
TextContents ==
    {PyNone, PyStr(<<>>), PyStr(<<32>>), PyStr(<<84>>), PyStr(<<32, 84, 32>>)}

\* The requests tried for a handler: its text and the content returned for
\* it (read in live mode only).
Args(mode, mock) ==
    CASE mode = "generate" ->
            [text : {<<>>, <<66, 34, 44, 97>>}, content : IF mock THEN {PyNone} ELSE TextContents]
      [] mode = "title" ->
            [text : TitleTexts, content : IF mock THEN {PyNone} ELSE TextContents]
      [] mode = "summarize" ->
            [text : SummaryTexts, content : IF mock THEN {PyNone} ELSE {PyNone, PyStr(<<84>>)}]
      [] mode = "keywords" ->
            IF mock THEN [text : KwTexts, content : {PyNone}]
            ELSE [text : {<<32>>, <<107>>},
                  content : {PyNone} \cup {PyStr(t) : t \in KwTexts \cup JsonReplies}]

PureInit ==
    /\ MOCK \in BOOLEAN
    /\ api_key = <<107>>
    /\ logs = <<>>
    /\ sqlite_sequence = 0
    /\ now = 0
    /\ req = [p \in Procs |-> Idle]
    /\ resp = NoResp
    /\ ncalls = 0
    /\ completed = EmptyBag
    /\ fn \in Modes
    /\ arg \in Args(fn, MOCK)
    /\ res = NotRun

\* The handler of mode, from the request to the payload it passes to
\* _record_log.
Run(mode) ==
    /\ fn = mode
    /\ ~res.done
    /\ res' = [done |-> TRUE, r |-> Payload(mode, arg.text, arg.content)]
    /\ UNCHANGED <<MOCK, api_key, logs, sqlite_sequence, now, req, resp, ncalls, completed,
                   fn, arg>>

run_generate == Run("generate") /\ fn = "generate"

run_title == Run("title") /\ fn = "title"

run_summarize == Run("summarize") /\ fn = "summarize"

run_keywords == Run("keywords") /\ fn = "keywords"

PureNext == run_generate \/ run_title \/ run_summarize \/ run_keywords

PureSpec == PureInit /\ [][PureNext]_vars

(***************************************************************************)
(* Properties                                                              *)
(***************************************************************************)

InFlight == Cardinality({p \in Procs : req[p].pc = "api"})

\* the handler calls that have ended, with a payload or with an error
Ended == ncalls - InFlight

IsCallResp == resp.op \in Modes

Blank(text) == strip(text) = <<>>

EndsWith(s, tail) ==
    Len(s) >= Len(tail) /\ SubSeq(s, Len(s) - Len(tail) + 1, Len(s)) = tail

\* C1: history(limit) returns entries in strict descending id order, and
\* for every requested limit the number of returned entries exceeds neither
\* the limit nor the number of calls made (an empty list is taken to be
\* within any limit).
C1_HistoryWithinLimit ==
    (resp.op = "history" /\ resp.status = "ok") =>
        /\ \A k \in 1..(Len(resp.rows) - 1) : resp.rows[k].id > resp.rows[k + 1].id
        /\ resp.rows # <<>> => Len(resp.rows) <= resp.limit
        /\ Len(resp.rows) <= ncalls

\* C2: a call that ends in an error leaves the log as it was, and the log
\* changes only in the step in which a call returns its payload, by the one
\* row that holds that payload.
C2_NoLogOnError ==
    [][ /\ (Ended' = Ended + 1 /\ resp'.status \in Errors) => logs' = logs
        /\ logs' # logs =>
             /\ Ended' = Ended + 1
             /\ resp'.status = "ok"
             /\ resp'.payload # NoPayload
             /\ Len(logs') = Len(logs) + 1
             /\ logs'[Len(logs')].output = json_dumps(resp'.payload) ]_vars

\* an error response after something was logged
C2_Witness == IsCallResp /\ resp.status \in Errors /\ Len(logs) >= 1

FirstIs(h, mode, inp, out) ==
    /\ ~h.raised
    /\ Len(h.rows) >= 1
    /\ h.rows[1].mode = mode
    /\ h.rows[1].input = inp
    /\ h.rows[1].output = out

\* C3: right after a call has returned payload p for mode m, the first
\* entry history returns with the default limit has mode m, the request
\* body as input and p as output.
C3_RoundTrip ==
    (IsCallResp /\ resp.status = "ok") =>
        FirstIs(history_rows(logs, DefaultLimit), resp.op,
                model_dump(resp.op, resp.body), resp.payload)

\* the second logged call has returned a payload holding a quote
C3_Witness ==
    /\ IsCallResp /\ resp.status = "ok"
    /\ Len(logs) = 2
    /\ resp.payload.v.t = "str" /\ 34 \in Range(resp.payload.v.s)
    /\ logs[1].mode # resp.op

\* C4: the ids of the log are strictly increasing in insertion order, and no
\* step changes or removes a row written earlier.
C4_AppendOnly ==
    /\ [](\A i, j \in 1..Len(logs) : i < j => logs[i].id < logs[j].id)
    /\ [][ /\ Len(logs') >= Len(logs)
           /\ \A i \in 1..Len(logs) : logs'[i] = logs[i] ]_vars

\* two rows written at different seconds, then listed
C4_Witness ==
    /\ Len(logs) = 2 /\ logs[1].ts < logs[2].ts
    /\ resp.op = "history" /\ Len(resp.rows) = 2

RECURSIVE RowBag(_)
\* the rows of the log as a bag of calls
RowBag(rows) ==
    IF rows = <<>> THEN EmptyBag
    ELSE SetToBag({[mode |-> Head(rows).mode, input |-> json_loads(Head(rows).input).d,
                    output |-> json_loads(Head(rows).output).d]})
         (+) RowBag(Tail(rows))

\* C5: whatever the interleaving, the log holds one row per call that has
\* completed its log write, with the mode, input and output of that call.
C5_OneRowPerCall ==
    /\ Len(logs) = BagCardinality(completed)
    /\ RowBag(logs) = completed

\* a call has logged while a call of another mode waits for the completion API
C5_Witness ==
    /\ Len(logs) >= 1
    /\ \E p \in Procs : req[p].pc = "api" /\ req[p].mode # logs[Len(logs)].mode

\* the title the handler has before its blank check
Produced == IF MOCK THEN PyStr(_mock_title(arg.text)) ELSE arg.content

\* C6: a title call that returns has a non-empty text, which is "Untitled"
\* when the trimmed input is empty or the produced title is blank.
C6_TitleNeverEmpty ==
    (fn = "title" /\ res.done /\ ~res.r.raised) =>
        /\ res.r.payload.v.t = "str"
        /\ res.r.payload.v.s # <<>>
        /\ (Blank(arg.text) \/ Blank(Produced.s)) => res.r.payload.v.s = Untitled

\* live mode, a text, a blank reply
C6_Witness ==
    /\ fn = "title" /\ res.done /\ ~MOCK
    /\ ~Blank(arg.text) /\ arg.content = PyStr(<<32>>)
    /\ res.r.payload.v.s = Untitled

SummaryDone == fn = "summarize" /\ MOCK /\ res.done

\* C7 as stated: every text longer than 150 characters is summarised to at
\* most 153 characters ending in "..."; a blank text to "No content."; a
\* text of trimmed length at most 150 to itself, trimmed.
C7_SummaryOfLongText ==
    SummaryDone =>
        LET out == res.r.payload.v.s
        IN  /\ Len(arg.text) > SummaryChars =>
                 EndsWith(out, Ellipsis) /\ Len(out) <= SummaryChars + Len(Ellipsis)
            /\ Blank(arg.text) => out = NoContent
            /\ (~Blank(arg.text) /\ Len(strip(arg.text)) <= SummaryChars) =>
                 out = strip(arg.text)

\* C7, amended: the cut applies to texts whose trimmed length exceeds 150.
C7_SummaryOfLongTrimmedText ==
    SummaryDone =>
        LET out == res.r.payload.v.s
        IN  /\ Len(strip(arg.text)) > SummaryChars =>
                 EndsWith(out, Ellipsis) /\ Len(out) <= SummaryChars + Len(Ellipsis)
            /\ Blank(arg.text) => out = NoContent
            /\ (~Blank(arg.text) /\ Len(strip(arg.text)) <= SummaryChars) =>
                 out = strip(arg.text)

\* a long text whose first 150 characters end in blanks
C7_Witness ==
    /\ SummaryDone
    /\ Len(strip(arg.text)) > SummaryChars
    /\ Len(res.r.payload.v.s) < SummaryChars + Len(Ellipsis)
    /\ EndsWith(res.r.payload.v.s, Ellipsis)

\* the lower-cased word tokens of text: the maximal stretches of word
\* characters
Tokens(text) ==
    {lower(SubSeq(text, i, j)) : <<i, j>> \in
        {ij \in (1..Len(text)) \X (1..Len(text)) :
            /\ ij[1] <= ij[2]
            /\ \A k \in ij[1]..ij[2] : IsWord(text[k])
            /\ ij[1] = 1 \/ ~IsWord(text[ij[1] - 1])
            /\ ij[2] = Len(text) \/ ~IsWord(text[ij[2] + 1])}}

\* C8: the mock keywords are in ascending order, without duplicates, and
\* are exactly the lower-cased word tokens of the text.
C8_MockKeywordsSorted ==
    (fn = "keywords" /\ MOCK /\ res.done) =>
        LET words == res.r.payload.v.l
        IN  /\ ~res.r.raised
            /\ \A k \in 1..(Len(words) - 1) : StrLess(words[k], words[k + 1])
            /\ Range(words) = Tokens(arg.text)

\* "b,A" gives a, b; "a,A" gives a
C8_Witness ==
    /\ fn = "keywords" /\ MOCK /\ res.done
    /\ \/ arg.text = <<98, 44, 65>> /\ res.r.payload.v.l = << <<97>>, <<98>> >>
       \/ arg.text = <<97, 44, 65>> /\ res.r.payload.v.l = << <<97>> >>

\* the pieces of reply between commas, trimmed, the empty ones dropped, in
\* the order of the reply
CommaPieces(reply) ==
    LET pieces == splitOn(reply, 44)
        idx    == {i \in 1..Len(pieces) : ~Blank(pieces[i])}
        kth(k) == CHOOSE x \in idx : Cardinality({y \in idx : y < x}) = k - 1
    IN  [k \in 1..Cardinality(idx) |-> strip(pieces[kth(k)])]

\* JSONDecoder.decode: the value read must be followed by blanks only
decode_end(s, r) ==
    IF r.ok /\ SkipWs(s, r.i) = Len(s) + 1 THEN r ELSE Fail

\* json.loads(s) where s holds one value: ok = FALSE when it raises (also on
\* data after the value).
loads_value(s) == decode_end(s, scan_once(s, SkipWs(s, 1)))

AsJsonOrPieces(reply, parsed) ==
    IF parsed.ok /\ parsed.v.t = "list" THEN parsed.v.l ELSE CommaPieces(reply)

\* C9: in live mode the keywords are those of the reply in the reply's
\* order: the reply read as a JSON array of strings, or else cut at the
\* commas, each piece trimmed, the empty pieces dropped.
C9_LiveKeywordsInReplyOrder ==
    (fn = "keywords" /\ ~MOCK /\ res.done /\ ~Blank(arg.text) /\ arg.content.t = "str") =>
        /\ ~res.r.raised
        /\ res.r.payload.v.l = AsJsonOrPieces(arg.content.s, loads_value(arg.content.s))

\* C10: a call issues no completion call in mock mode, for a blank text of
\* title/summarize/keywords (the canned default is returned) and without a
\* credential (the call fails with the missing-credential error); in live
\* mode with a credential and a text it issues exactly one; never more.
C10_CompletionCalls ==
    /\ \A p \in Procs :
          /\ req[p].calls <= 1
          /\ req[p].pc = "api" =>
                /\ req[p].calls = 1 /\ ~MOCK /\ api_key # <<>>
                /\ req[p].mode = "generate" \/ ~Blank(req[p].body)
    /\ IsCallResp =>
          /\ resp.calls <= 1
          /\ MOCK => resp.calls = 0
          /\ (resp.op # "generate" /\ Blank(resp.body)) =>
                /\ resp.calls = 0 /\ resp.status = "ok"
                /\ resp.payload.v = CASE resp.op = "title" -> PyStr(Untitled)
                                      [] resp.op = "summarize" -> PyStr(NoContent)
                                      [] resp.op = "keywords" -> PyList(<<>>)
          /\ (~MOCK /\ api_key = <<>> /\ (resp.op = "generate" \/ ~Blank(resp.body))) =>
                resp.calls = 0 /\ resp.status = "missing_key"
          /\ (~MOCK /\ api_key # <<>> /\ (resp.op = "generate" \/ ~Blank(resp.body))) =>
                resp.calls = 1

\* live mode: one call returned after its one completion call, and a blank
\* text was answered without any
C10_Witness ==
    /\ ~MOCK /\ api_key # <<>> /\ Len(logs) = 2
    /\ IsCallResp /\ resp.status = "ok"
    /\ \/ resp.calls = 1 /\ json_loads(logs[1].input).d.v.s = <<32>>
       \/ resp.calls = 0 /\ Blank(resp.body) /\ json_loads(logs[1].input).d.v.s # <<32>>

====
